---- MODULE Spec2Model ----
(***************************************************************************)
(* A model of motionmapperpy/motionmapper.py: the training-set sampler     *)
(* (returnTemplates, findTemplatesFromData, runEmbeddingSubSampling), its  *)
(* wrapper (subsampled_tsne_from_projections), the bandwidth solver        *)
(* (returnCorrectSigma_sparse), the candidate selector (TDistProjs) and    *)
(* the batch embedding coordinator (findTDistributedProjections_fmin,      *)
(* findEmbeddings).                                                        *)
(*                                                                         *)
(* Each part of the program has its own specification over the shared      *)
(* variables; the variables of the other parts stay at their idle values.  *)
(***************************************************************************)
EXTENDS Integers, Sequences, FiniteSets

VARIABLES
    \* ---- findTemplatesFromData / runEmbeddingSubSampling
    pcS,               \* position in the sampler
    trainingSetSize,   \* parameters.trainingSetSize
    training_numPoints,\* parameters.training_numPoints
    numFiles,          \* L = len(projectionFiles) after the skip loop
    numPerDataSet,     \* round(N / L)
    fileIdx,           \* number of datasets loaded and sampled so far
    templateLengths,   \* lengths returned by returnTemplates (current dataset)
    numInGroup,        \* per-basin quota of the current dataset
    selectedData,      \* output buffer of findTemplatesFromData
    trainingSetData,   \* rows of the global training set
    useIdx,            \* row mask of runEmbeddingSubSampling
    unionSize,         \* points held by the retained templates seen so far,
                       \* counted up to trainingSetSize
    returnedS,         \* rows returned by runEmbeddingSubSampling, or Absent
    errS,              \* the exception that ended the sampler, or NoValue
    \* ---- TDistProjs (indices 0 and 1 as in the source)
    pcT,               \* position in TDistProjs
    degenerate,        \* z holds fewer than 3 non-collinear points
    guesses,           \* the two initial guesses
    b,                 \* the two optimized positions
    c,                 \* the two final costs
    flags,             \* the two warnflags of fmin
    polyIn,            \* q.find_simplex(b) >= 0
    outT,              \* the tuple TDistProjs returns, or Absent
    errT,              \* the exception that ended TDistProjs, or NoValue
    \* ---- findEmbeddings / findTDistributedProjections_fmin
    pcE,               \* position in findEmbeddings
    method,            \* parameters.method
    waveletDecomp,     \* parameters.waveletDecomp
    batchSize,         \* parameters.embedding_batchSize
    numProcessors,     \* parameters.numProcessors
    data,              \* the query rows (line 971 rebinds it, normalised)
    data_sum,          \* row sums before normalisation (line 964)
    idx_valid,         \* line 965
    valid_data,        \* line 968, the rows handed to the embedding engine
    batchJ,            \* j, the batch index of line 854
    currentData,       \* rows of the current batch (line 858)
    D2,                \* divergence or distance rows of the current batch
    valid_data_chunks, \* line 1000
    taskState,         \* per task of the pool: pending, running, finished
    outqueue,          \* the pool's result queue, in completion order
    dispatchCount,     \* per position: how often a task was submitted for it
    computed,          \* per query row: the result a worker computed from it
    failedAt,          \* batch and task of the first failed task, or Absent
    zValues_fmin,      \* zValues of findTDistributedProjections_fmin
    zGuesses,
    zCosts,
    inConvHull,
    meanMax,
    exitFlags,
    zValues_temp,      \* line 977 / 1009
    outputStatistics_temp,
    outputStatistics,  \* Absent while the name is unbound
    zValues,           \* line 1021-1024
    returnedE,         \* the pair findEmbeddings returns, or Absent
    errE,              \* the exception that ended findEmbeddings, or NoValue
    \* ---- returnCorrectSigma_sparse
    pcB,               \* position in the bandwidth solver
    ds,                \* the distance vector: its maximum and whether finite
    perplexityOf,      \* perplexity of the restricted neighbours per sigma
    perplexity,        \* the target perplexity
    tol,               \* the tolerance (sigmaTolerance)
    highGuess,
    lowGuess,
    sigma,
    P,                 \* 2**H for the current sigma
    test,              \* the loop condition
    iterated,          \* whether the body of the while loop has run
    outB,              \* the pair (sigma, out) returned, or Absent
    errB,              \* the exception that ended the solver, or NoValue
    \* ---- runEmbeddingSubSampling: amplitudes and the bad-file record
    trainingSetAmps,   \* amplitudes of the rows of the global training set
    returnedAmps,      \* amplitudes returned by runEmbeddingSubSampling
    distMeans,         \* per dataset fitted: np.mean(D) of run_tSne
    badFiles,          \* lines of list_of_bad_files.txt (file indices)
    \* ---- returnTemplates (points are numbered 1..N in row order)
    pcR,               \* position in returnTemplates
    watershedValues,   \* per reference point: the label of its basin
    maxL,              \* np.max(L): the number of basins
    minTemplateLength,
    templates,         \* the templates: each the row numbers it holds
    lengths,
    vals2,             \* per reference point: its label after relabelling
    \* ---- the training set handed to findEmbeddings
    trainingData,      \* the training feature matrix, row by row
    trainingEmbedding, \* the training embedding, row by row
    \* ---- subsampled_tsne_from_projections
    pcW,               \* position in the wrapper
    parameters,        \* the caller's parameters object (the fields used)
    tSNE_method_entry, \* parameters.tSNE_method when the wrapper was entered
    tSNE_method_old,   \* the local of line 597, Absent while unbound
    trainingFileExists, \* os.path.exists(tsne_directory + "training_data.mat")
    fitMethod,         \* parameters.tSNE_method at the final fit, or Absent
    errW,              \* the exception that ended the wrapper, or NoValue
    \* ---- findTemplatesFromData: the sampling loop, row by row
    loopJ,             \* j of the loop of line 239 (0-based)
    cumSumGroupVals,   \* line 237, on 0..N
    selectedAmps       \* the amplitude buffer of line 217

samplerVars == << pcS, trainingSetSize, training_numPoints, numFiles,
                  numPerDataSet, fileIdx, templateLengths, numInGroup,
                  selectedData, trainingSetData, useIdx, unionSize,
                  returnedS, errS >>

selectorVars == << pcT, degenerate, guesses, b, c, flags, polyIn, outT, errT >>

embedVars == << pcE, method, waveletDecomp, batchSize, numProcessors, data,
                data_sum, idx_valid, valid_data, batchJ, currentData, D2,
                valid_data_chunks, taskState, outqueue, dispatchCount,
                computed, failedAt, zValues_fmin, zGuesses, zCosts,
                inConvHull, meanMax, exitFlags, zValues_temp,
                outputStatistics_temp, outputStatistics, zValues, returnedE,
                errE >>

sigmaVars == << pcB, ds, perplexityOf, perplexity, tol, highGuess, lowGuess,
                sigma, P, test, iterated, outB, errB >>

recordVars == << trainingSetAmps, returnedAmps, distMeans, badFiles >>

templateVars == << pcR, watershedValues, maxL, minTemplateLength, templates,
                   lengths, vals2 >>

trainingVars == << trainingData, trainingEmbedding >>

wrapperVars == << pcW, parameters, tSNE_method_entry, tSNE_method_old,
                  trainingFileExists, fitMethod, errW >>

drawVars == << loopJ, cumSumGroupVals, selectedAmps >>

vars == << samplerVars, selectorVars, embedVars, sigmaVars, recordVars,
           templateVars, trainingVars, wrapperVars, drawVars >>

NoValue == "none"

\* A name that may be unbound: Absent, or Some(v) once it holds v
Absent == << >>
Some(v) == << v >>

----------------------------------------------------------------------------
(* Bounds of the model *)

MaxBasins == 4        \* retained basins per dataset (quota specification)
MaxBasinSize == 3     \* points per retained basin (quota specification)
MaxTarget == 8        \* numPerDataSet in the quota specification
MaxFiles == 2         \* usable projection files
MaxTrain == 5         \* parameters.trainingSetSize
MaxPoints == 3        \* parameters.training_numPoints
MaxFileBasins == 2    \* retained basins per dataset (subsampling specification)
MaxFileBasinSize == 2 \* points per retained basin (subsampling specification)
MaxCost == 2          \* final costs of fmin range over 0..MaxCost
MaxQuery == 3         \* query rows handed to findEmbeddings
MaxBatch == 2         \* parameters.embedding_batchSize
MaxProcs == 2         \* parameters.numProcessors
MaxSigma == 4         \* representable bandwidths between the two guesses
MaxNeighbors == 3     \* restricted neighbours (maxNeighbors)
MaxPerplexity == 4    \* target perplexities 1..MaxPerplexity
MaxTol == 2           \* tolerances 1..MaxTol
MaxRefPoints == 3     \* reference points handed to returnTemplates
MaxLabels == 3        \* watershed basins (maxL)
MaxMinLength == 2     \* minTemplateLength ranges over 0..MaxMinLength

----------------------------------------------------------------------------
(* Arithmetic helpers *)

Min(x, y) == IF x < y THEN x ELSE y

RECURSIVE SumSeq(_)
SumSeq(s) == IF s = << >> THEN 0 ELSE Head(s) + SumSeq(Tail(s))

\* Sequences over S of length lo..hi
SeqsOf(S, lo, hi) == UNION { [1..n -> S] : n \in lo..hi }

\* round(n / d) for n >= 0, d > 0: Python's round and numpy's np.round both
\* round an exact half to the even neighbour.
RoundHalfEven(n, d) ==
    LET q == n \div d
        r == n % d
    IN  IF 2 * r < d THEN q
        ELSE IF 2 * r > d THEN q + 1
        ELSE IF q % 2 = 0 THEN q ELSE q + 1

----------------------------------------------------------------------------
(* findTemplatesFromData: per-basin quotas, lines 219-237 *)

\* line 219-220: proportional share, rounded, with 0 raised to 1
ProportionalQuota(tl, T) ==
    [ j \in 1..Len(tl) |->
        LET r == RoundHalfEven(T * tl[j], SumSeq(tl))
        IN  IF r = 0 THEN 1 ELSE r ]

\* lines 222-233: the index sets np.random.permutation can select
RebalanceChoices(num, T) ==
    LET N == Len(num)
        sumVal == SumSeq(num)
    IN  IF sumVal < T
        THEN LET q == T - sumVal
             IN  { S \in SUBSET (1..N) : Cardinality(S) = Min(q, N) }
        ELSE IF sumVal > T
        THEN LET q == sumVal - T
                 gt1 == { j \in 1..N : num[j] > 1 }
                 idx2 == IF Cardinality(gt1) < q THEN 1..N ELSE gt1
             IN  { S \in SUBSET idx2 : Cardinality(S) = Min(q, Cardinality(idx2)) }
        ELSE { {} }

\* lines 225 and 234: add 1 to (deficit) or subtract 1 from (surplus) the pick
Rebalance(num, T, pick) ==
    LET sumVal == SumSeq(num)
    IN  [ j \in 1..Len(num) |->
            IF j \in pick
            THEN IF sumVal < T THEN num[j] + 1 ELSE num[j] - 1
            ELSE num[j] ]

\* lines 235-236 left out: the quotas as the rebalancing leaves them
ClampToLengths_None(num, tl) == num

\* lines 235-236: no quota above the basin's size
ClampToLengths(num, tl) ==
    [ j \in 1..Len(num) |-> IF num[j] > tl[j] THEN tl[j] ELSE num[j] ]

\* lines 219-236 for one random pick
FinalQuota(tl, T, pick) ==
    ClampToLengths(Rebalance(ProportionalQuota(tl, T), T, pick), tl)

\* line 237: cumSumGroupVals, as a function on 0..N
CumSum(num) ==
    [ j \in 0..Len(num) |-> SumSeq(SubSeq(num, 1, j)) ]

\* lines 216, 239-248: the numPerDataSet-row buffer; a row filled from
\* template j carries j, a row never written stays 0.
FillSelected(num, T) ==
    LET cum == CumSum(num)
    IN  [ r \in 1..T |->
            IF \E j \in 1..Len(num) : cum[j - 1] < r /\ r <= cum[j]
            THEN CHOOSE j \in 1..Len(num) : cum[j - 1] < r /\ r <= cum[j]
            ELSE 0 ]

----------------------------------------------------------------------------
(* Idle values of the parts a specification does not run *)

IdleSampler ==
    /\ pcS = "idle"
    /\ trainingSetSize = 0
    /\ training_numPoints = 0
    /\ numFiles = 0
    /\ numPerDataSet = 0
    /\ fileIdx = 0
    /\ templateLengths = << >>
    /\ numInGroup = << >>
    /\ selectedData = << >>
    /\ trainingSetData = << >>
    /\ useIdx = << >>
    /\ unionSize = 0
    /\ returnedS = Absent
    /\ errS = NoValue

IdleSelector ==
    /\ pcT = "idle"
    /\ degenerate = FALSE
    /\ guesses = << >>
    /\ b = << >>
    /\ c = << >>
    /\ flags = << >>
    /\ polyIn = << >>
    /\ outT = Absent
    /\ errT = NoValue

IdleEmbed ==
    /\ pcE = "idle"
    /\ method = NoValue
    /\ waveletDecomp = FALSE
    /\ batchSize = 0
    /\ numProcessors = 0
    /\ data = << >>
    /\ data_sum = << >>
    /\ idx_valid = << >>
    /\ valid_data = << >>
    /\ batchJ = 0
    /\ currentData = << >>
    /\ D2 = << >>
    /\ valid_data_chunks = << >>
    /\ taskState = << >>
    /\ outqueue = << >>
    /\ dispatchCount = << >>
    /\ computed = << >>
    /\ failedAt = Absent
    /\ zValues_fmin = << >>
    /\ zGuesses = << >>
    /\ zCosts = << >>
    /\ inConvHull = << >>
    /\ meanMax = << >>
    /\ exitFlags = << >>
    /\ zValues_temp = Absent
    /\ outputStatistics_temp = Absent
    /\ outputStatistics = Absent
    /\ zValues = Absent
    /\ returnedE = Absent
    /\ errE = NoValue

IdleSigma ==
    /\ pcB = "idle"
    /\ ds = << >>
    /\ perplexityOf = << >>
    /\ perplexity = 0
    /\ tol = 0
    /\ highGuess = 0
    /\ lowGuess = 0
    /\ sigma = 0
    /\ P = 0
    /\ test = FALSE
    /\ iterated = FALSE
    /\ outB = Absent
    /\ errB = NoValue

IdleRecord ==
    /\ trainingSetAmps = << >>
    /\ returnedAmps = Absent
    /\ distMeans = << >>
    /\ badFiles = << >>

IdleTemplates ==
    /\ pcR = "idle"
    /\ watershedValues = << >>
    /\ maxL = 0
    /\ minTemplateLength = 0
    /\ templates = << >>
    /\ lengths = << >>
    /\ vals2 = << >>

IdleTraining ==
    /\ trainingData = << >>
    /\ trainingEmbedding = << >>

IdleWrapper ==
    /\ pcW = "idle"
    /\ parameters = << >>
    /\ tSNE_method_entry = NoValue
    /\ tSNE_method_old = Absent
    /\ trainingFileExists = FALSE
    /\ fitMethod = Absent
    /\ errW = NoValue

IdleDraw ==
    /\ loopJ = 0
    /\ cumSumGroupVals = << >>
    /\ selectedAmps = << >>

----------------------------------------------------------------------------
(* Specification of findTemplatesFromData alone *)

InitQuota ==
    /\ pcS = "templates"
    /\ templateLengths \in SeqsOf(1..MaxBasinSize, 0, MaxBasins)
    /\ numPerDataSet \in 0..MaxTarget
    /\ numInGroup = << >>
    /\ selectedData = << >>
    /\ trainingSetSize = 0
    /\ training_numPoints = 0
    /\ numFiles = 0
    /\ fileIdx = 0
    /\ trainingSetData = << >>
    /\ useIdx = << >>
    /\ unionSize = 0
    /\ returnedS = Absent
    /\ errS = NoValue
    /\ IdleSelector
    /\ IdleEmbed
    /\ IdleSigma
    /\ IdleRecord
    /\ IdleTemplates
    /\ IdleTraining
    /\ IdleWrapper
    /\ IdleDraw

FindTemplatesFromData ==
    /\ pcS = "templates"
    /\ \E pick \in RebalanceChoices(
                      ProportionalQuota(templateLengths, numPerDataSet),
                      numPerDataSet) :
          /\ numInGroup' = FinalQuota(templateLengths, numPerDataSet, pick)
          /\ selectedData' = FillSelected(numInGroup', numPerDataSet)
    /\ pcS' = "sampled"
    /\ UNCHANGED << trainingSetSize, training_numPoints, numFiles,
                    numPerDataSet, fileIdx, templateLengths, trainingSetData,
                    useIdx, unionSize, returnedS, errS >>
    /\ UNCHANGED << selectorVars, embedVars, sigmaVars, recordVars,
                    templateVars, trainingVars, wrapperVars, drawVars >>

NextQuota == FindTemplatesFromData

SpecQuota == InitQuota /\ [][NextQuota]_vars

\* C1: the final per-basin quotas sum to min(T, sum of basin sizes), for
\* every list of basin sizes, every target T and every rebalancing choice.
C1_QuotaSumIsMin ==
    pcS = "sampled" =>
        SumSeq(numInGroup) = Min(numPerDataSet, SumSeq(templateLengths))

\* C15: no basin's final quota exceeds the number of points the basin
\* holds, so the sampler never asks a template for more rows than it has.
C15_QuotaWithinBasin ==
    pcS = "sampled" =>
        /\ Len(numInGroup) = Len(templateLengths)
        /\ \A j \in 1..Len(numInGroup) : numInGroup[j] <= templateLengths[j]

\* a basin whose proportional share is at least two above its size, so the
\* clamp acts on it whatever the rebalancing picked
C15_Witness ==
    /\ pcS = "sampled"
    /\ \E j \in 1..Len(numInGroup) :
          /\ ProportionalQuota(templateLengths, numPerDataSet)[j]
                >= templateLengths[j] + 2
          /\ numInGroup[j] = templateLengths[j]

----------------------------------------------------------------------------
(* runEmbeddingSubSampling, lines 531-579 *)

\* line 540: the per-file quota against the point budget
QuotaExceedsBudget_OffByOne(quota, budget) == quota > budget + 1

QuotaExceedsBudget(quota, budget) == quota > budget

\* np.zeros((n, d)): n rows that sum to zero
ZeroRows(n) == [ r \in 1..n |-> 0 ]

\* line 573: a buffer row sums to zero exactly when it was never written,
\* since line 297 normalises every source row to sum 1
RowSumIsZero(row) == row = 0

\* line 125: dist_mat_mean < 0.00001, in units of 1e-6
BadMeanThreshold == 10

\* the means a dataset can give: just below the threshold, and at it
DistMeans == { BadMeanThreshold - 1, BadMeanThreshold }

\* line 125 with the test never true
IsBadMean_Never(mean) == FALSE

IsBadMean(mean) == mean < BadMeanThreshold

\* lines 573-574 left out: the mask as it was
MaskBlock_None(mask, rows, i, T) == mask

\* line 561: currentIdx, the rows of dataset i (0-based) in the training set
CurrentIdx(i, T) == { r + i * T : r \in 1..T }

\* lines 567-568: the block of dataset i is overwritten by the buffer
WriteBlock(rows, i, T, block) ==
    [ r \in 1..Len(rows) |->
        IF r \in CurrentIdx(i, T) THEN block[r - i * T] ELSE rows[r] ]

\* lines 573-574: rows of the block that sum to zero are masked out
MaskBlock(mask, rows, i, T) ==
    [ r \in 1..Len(mask) |->
        IF r \in CurrentIdx(i, T) /\ RowSumIsZero(rows[r]) THEN FALSE
        ELSE mask[r] ]

\* lines 576-577: boolean-mask indexing keeps the rows in order
RECURSIVE SelectRows(_, _)
SelectRows(rows, mask) ==
    IF rows = << >> THEN << >>
    ELSE IF Head(mask)
         THEN << Head(rows) >> \o SelectRows(Tail(rows), Tail(mask))
         ELSE SelectRows(Tail(rows), Tail(mask))

InitSub ==
    /\ pcS = "start"
    /\ trainingSetSize \in 1..MaxTrain
    /\ training_numPoints \in 1..MaxPoints
    /\ numFiles \in 0..MaxFiles
    /\ numPerDataSet = 0
    /\ fileIdx = 0
    /\ templateLengths = << >>
    /\ numInGroup = << >>
    /\ selectedData = << >>
    /\ trainingSetData = << >>
    /\ useIdx = << >>
    /\ unionSize = 0
    /\ returnedS = Absent
    /\ errS = NoValue
    /\ IdleSelector
    /\ IdleEmbed
    /\ IdleSigma
    /\ IdleRecord
    /\ IdleTemplates
    /\ IdleTraining
    /\ IdleWrapper
    /\ IdleDraw

\* lines 531-553: the quota, its check and the allocation of the arrays
CheckQuota ==
    /\ pcS = "start"
    /\ \/ /\ numFiles = 0                       \* round(N / 0)
          /\ pcS' = "error"
          /\ errS' = "ZeroDivisionError"
          /\ UNCHANGED << numPerDataSet, trainingSetData, trainingSetAmps,
                          useIdx >>
       \/ /\ numFiles > 0
          /\ numPerDataSet' = RoundHalfEven(trainingSetSize, numFiles)
          /\ IF QuotaExceedsBudget(numPerDataSet', training_numPoints)
             THEN /\ pcS' = "error"
                  /\ errS' = "ValueError"
                  /\ UNCHANGED << trainingSetData, trainingSetAmps, useIdx >>
             ELSE /\ pcS' = "loop"
                  /\ trainingSetData' = ZeroRows(numPerDataSet' * numFiles)
                  /\ trainingSetAmps' = ZeroRows(numPerDataSet' * numFiles)
                  /\ useIdx' = [ r \in 1..(numPerDataSet' * numFiles) |-> TRUE ]
                  /\ errS' = NoValue
    /\ UNCHANGED << trainingSetSize, training_numPoints, numFiles, fileIdx,
                    templateLengths, numInGroup, selectedData, unionSize,
                    returnedS, returnedAmps, distMeans, badFiles >>
    /\ UNCHANGED << selectorVars, embedVars, sigmaVars, templateVars,
                    trainingVars, wrapperVars, drawVars >>

\* lines 555-574: one iteration: load and fit the dataset (run_tSne on
\* its wavelet amplitudes: the mean of its squared divergence matrix is
\* whatever the data give, and a low mean is recorded at lines 125-128
\* before the fit goes on; its retained basin sizes tl are whatever
\* returnTemplates finds), sample it, store the block; the quotas and the
\* buffer are locals of findTemplatesFromData and are gone when it returns.
\* Line 245 fills selectedAmps at the slots and from the source rows of
\* selectedData, so an amplitude carries the basin of its row as well.
ProcessFile ==
    /\ pcS = "loop"
    /\ fileIdx < numFiles
    /\ \E dist_mat_mean \in DistMeans :
          /\ distMeans' = Append(distMeans, dist_mat_mean)
          /\ badFiles' = IF IsBadMean(dist_mat_mean)
                         THEN Append(badFiles, fileIdx)
                         ELSE badFiles
    /\ \E tl \in SeqsOf(1..MaxFileBasinSize, 0, MaxFileBasins) :
       \E pick \in RebalanceChoices(ProportionalQuota(tl, numPerDataSet),
                                    numPerDataSet) :
          /\ trainingSetData' =
                WriteBlock(trainingSetData, fileIdx, numPerDataSet,
                           FillSelected(FinalQuota(tl, numPerDataSet, pick),
                                        numPerDataSet))
          /\ trainingSetAmps' =
                WriteBlock(trainingSetAmps, fileIdx, numPerDataSet,
                           FillSelected(FinalQuota(tl, numPerDataSet, pick),
                                        numPerDataSet))
          /\ useIdx' = MaskBlock(useIdx, trainingSetData', fileIdx,
                                 numPerDataSet)
          /\ unionSize' = Min(unionSize + SumSeq(tl), trainingSetSize)
    /\ fileIdx' = fileIdx + 1
    /\ UNCHANGED << pcS, trainingSetSize, training_numPoints, numFiles,
                    numPerDataSet, templateLengths, numInGroup, selectedData,
                    returnedS, returnedAmps, errS >>
    /\ UNCHANGED << selectorVars, embedVars, sigmaVars, templateVars,
                    trainingVars, wrapperVars, drawVars >>

\* lines 576-579
ReturnTrainingSet ==
    /\ pcS = "loop"
    /\ fileIdx = numFiles
    /\ returnedS' = Some(SelectRows(trainingSetData, useIdx))
    /\ returnedAmps' = Some(SelectRows(trainingSetAmps, useIdx))
    /\ pcS' = "returned"
    /\ UNCHANGED << trainingSetSize, training_numPoints, numFiles,
                    numPerDataSet, fileIdx, templateLengths, numInGroup,
                    selectedData, trainingSetData, trainingSetAmps, useIdx,
                    unionSize, distMeans, badFiles, errS >>
    /\ UNCHANGED << selectorVars, embedVars, sigmaVars, templateVars,
                    trainingVars, wrapperVars, drawVars >>

NextSub == CheckQuota \/ ProcessFile \/ ReturnTrainingSet

SpecSub == InitSub /\ [][NextSub]_vars

\* C2: the training set returned has exactly trainingSetSize rows, unless
\* the retained templates of all datasets together hold fewer points, and
\* then it has as many rows as they hold.
C2_TrainingSetSizeIsTarget ==
    pcS = "returned" =>
        Len(returnedS[1]) = Min(trainingSetSize, unionSize)

\* C10: whenever the rounded per-file quota exceeds training_numPoints the
\* run ends in the configuration error, with no dataset loaded or sampled
\* and no training set returned.
C10_QuotaErrorBeforeLoad ==
    ( /\ pcS # "start"
      /\ numFiles > 0
      /\ RoundHalfEven(trainingSetSize, numFiles) > training_numPoints )
    => ( /\ pcS = "error"
         /\ errS = "ValueError"
         /\ fileIdx = 0
         /\ unionSize = 0
         /\ trainingSetData = << >>
         /\ returnedS = Absent )

C10_Witness ==
    /\ pcS = "error"
    /\ errS = "ValueError"
    /\ numPerDataSet > training_numPoints

\* C12: a dataset whose squared divergence matrix has a mean below 1e-5 is
\* appended to the bad-file record, raises no error, and the loop goes on
\* to the remaining datasets.
C12_BadFileRecorded ==
    /\ \A i \in 1..Len(distMeans) :
          distMeans[i] < BadMeanThreshold
              => \E k \in 1..Len(badFiles) : badFiles[k] = i - 1
    /\ Len(distMeans) = fileIdx
    /\ pcS = "error" => fileIdx = 0
    /\ pcS = "returned" => fileIdx = numFiles

\* the first of two datasets had a low mean, the second was processed
C12_Witness ==
    /\ pcS = "returned"
    /\ Len(distMeans) = 2
    /\ distMeans[1] < BadMeanThreshold
    /\ distMeans[2] >= BadMeanThreshold
    /\ badFiles = << 0 >>

\* C19: the returned training set has no zero-sum row: every slot left
\* unfilled is dropped from the data and from the amplitudes, every filled
\* row is kept, and data and amplitudes stay aligned row by row.
C19_NoUnfilledRows ==
    pcS = "returned" =>
        LET filled == [ r \in 1..Len(trainingSetData) |->
                          trainingSetData[r] # 0 ]
        IN  /\ \A r \in 1..Len(returnedS[1]) : returnedS[1][r] # 0
            /\ returnedS[1] = SelectRows(trainingSetData, filled)
            /\ returnedAmps[1] = SelectRows(trainingSetAmps, filled)
            /\ Len(returnedAmps[1]) = Len(returnedS[1])
            /\ \A r \in 1..Len(returnedS[1]) :
                  returnedAmps[1][r] = returnedS[1][r]

\* a training set with an unfilled slot between filled rows
C19_Witness ==
    /\ pcS = "returned"
    /\ \E r \in 1..Len(trainingSetData) :
          /\ trainingSetData[r] = 0
          /\ \E k \in (r + 1)..Len(trainingSetData) : trainingSetData[k] # 0
    /\ Len(returnedS[1]) > 0

----------------------------------------------------------------------------
(* TDistProjs, lines 748-829 *)

CandidateIdx == 0..1

\* np.argmin over the entries of cc at the indices S: the first index that
\* attains the minimum
ArgMin(cc, S) ==
    CHOOSE i \in S : \A k \in S : cc[i] < cc[k] \/ (cc[i] = cc[k] /\ i <= k)

\* lines 811-818 with the hull test ignored
SelectCandidate_IgnoreHull(cc, pin) ==
    [ mI |-> ArgMin(cc, CandidateIdx),
      current_poly |-> \E i \in CandidateIdx : pin[i] ]

\* lines 811-818: mI and current_poly from the costs and the hull test
SelectCandidate(cc, pin) ==
    LET pp == { i \in CandidateIdx : pin[i] }
    IN  IF Cardinality(pp) > 0
        THEN [ mI |-> ArgMin(cc, pp), current_poly |-> TRUE ]
        ELSE [ mI |-> ArgMin(cc, CandidateIdx), current_poly |-> FALSE ]

\* lines 824-829: the returned tuple, every field taken at index mI
\* variant that reports the exit flag of the candidate not chosen
ResultTuple_Mixed(gs, bs, cs, fs, sel) ==
    [ current_guesses |-> gs[sel.mI], current |-> bs[sel.mI], tCosts |-> cs[sel.mI],
      current_poly |-> sel.current_poly, current_meanMax |-> sel.mI,
      exitFlags |-> fs[1 - sel.mI] ]

ResultTuple(gs, bs, cs, fs, sel) ==
    [ current_guesses |-> gs[sel.mI],
      current         |-> bs[sel.mI],
      tCosts          |-> cs[sel.mI],
      current_poly    |-> sel.current_poly,
      current_meanMax |-> sel.mI,
      exitFlags       |-> fs[sel.mI] ]

\* warnflag of scipy's fmin: 0 converged, 1 function evaluations, 2 iterations
WarnFlags == 0..2

\* The state at entry: what the bandwidth solver, the triangulation and
\* the two simplex searches produce is the environment's choice.
InitSelect ==
    /\ pcT = "start"
    /\ degenerate \in BOOLEAN
    /\ guesses = [ i \in CandidateIdx |-> << "guess", i >> ]
    /\ b = [ i \in CandidateIdx |-> << "opt", i >> ]
    /\ c \in [ CandidateIdx -> 0..MaxCost ]
    /\ flags \in [ CandidateIdx -> WarnFlags ]
    /\ polyIn \in [ CandidateIdx -> BOOLEAN ]
    /\ outT = Absent
    /\ errT = NoValue
    /\ IdleSampler
    /\ IdleEmbed
    /\ IdleSigma
    /\ IdleRecord
    /\ IdleTemplates
    /\ IdleTraining
    /\ IdleWrapper
    /\ IdleDraw

\* lines 761-829: Delaunay(z) raises on a degenerate neighbour set (line
\* 773, not caught); otherwise the candidate is selected and returned
TDistProjs ==
    /\ pcT = "start"
    /\ \/ /\ degenerate
          /\ pcT' = "raised"
          /\ errT' = "QhullError"
          /\ outT' = Absent
       \/ /\ ~degenerate
          /\ pcT' = "returned"
          /\ outT' = Some(ResultTuple(guesses, b, c, flags,
                                      SelectCandidate(c, polyIn)))
          /\ errT' = NoValue
    /\ UNCHANGED << degenerate, guesses, b, c, flags, polyIn >>
    /\ UNCHANGED << samplerVars, embedVars, sigmaVars, recordVars,
                    templateVars, trainingVars, wrapperVars, drawVars >>

NextSelect == TDistProjs

SpecSelect == InitSelect /\ [][NextSelect]_vars

\* C3: if a candidate is inside the hull, the selected one is a lowest-cost
\* candidate among those inside and the result is flagged in-hull; if
\* neither is inside, the selected one is a lowest-cost candidate of the
\* two and the result is flagged out-of-hull.
C3_SelectionRule ==
    pcT = "returned" =>
        LET inside == { i \in CandidateIdx : polyIn[i] }
            mI == outT[1].current_meanMax
        IN  /\ inside # {} =>
                /\ mI \in inside
                /\ \A k \in inside : c[mI] <= c[k]
                /\ outT[1].current_poly = TRUE
            /\ inside = {} =>
                /\ \A k \in CandidateIdx : c[mI] <= c[k]
                /\ outT[1].current_poly = FALSE

\* exactly one candidate inside, at a higher cost than the outside one
C3_Witness ==
    /\ pcT = "returned"
    /\ \E i \in CandidateIdx :
          /\ polyIn[i] /\ ~polyIn[1 - i]
          /\ c[i] > c[1 - i]
          /\ outT[1].current_meanMax = i
          /\ outT[1].current_poly = TRUE

\* C11: when the neighbour set is too small or degenerate to triangulate,
\* TDistProjs does not fail: it returns a result (the guess-based
\* candidate) and no error leaves the call.
C11_DegenerateRecovered ==
    ( degenerate /\ pcT # "start" )
    => ( /\ pcT = "returned"
         /\ errT = NoValue
         /\ outT # Absent )

\* C22: every returned result is internally consistent: the index returned
\* as the chosen candidate is 0 (centroid guess) or 1 (highest-affinity
\* neighbour), and the returned initial guess, optimized position, cost and
\* exit flag are all those of that one candidate.
C22_ResultConsistent ==
    pcT = "returned" =>
        LET r == outT[1]
            k == r.current_meanMax
        IN  /\ k \in CandidateIdx
            /\ r.current_guesses = guesses[k]
            /\ r.current = b[k]
            /\ r.tCosts = c[k]
            /\ r.exitFlags = flags[k]

\* the neighbour candidate is chosen while the two candidates differ in
\* cost and in exit flag
C22_Witness ==
    /\ pcT = "returned"
    /\ outT[1].current_meanMax = 1
    /\ c[0] # c[1]
    /\ flags[0] # flags[1]
    /\ outT[1].exitFlags = flags[1]
    /\ outT[1].current_guesses = guesses[1]

----------------------------------------------------------------------------
(* findEmbeddings (lines 924-1029) and findTDistributedProjections_fmin    *)
(* (lines 832-918)                                                         *)

\* line 965: 4e2
ActivityThreshold == 400

\* a row of np.full((n, 2), np.nan)
NaN == << "nan" >>

\* a row of np.zeros((N, 2))
ZeroRow == << 0, 0 >>

\* A query row is known by its index in the caller's array and its row
\* sum; zeros tells whether it still holds an entry equal to 0. Every row
\* handed in holds one: the case lines 860-865 are written for.
RowSums == { ActivityThreshold - 1, ActivityThreshold, ActivityThreshold + 1 }

RowsFrom(sums) ==
    [ k \in 1..Len(sums) |-> [ row |-> k, sum |-> sums[k], zeros |-> TRUE ] ]

\* the training set: MaxPoints rows of features and their embedding
TrainingFeatures == [ k \in 1..MaxPoints |-> << "features", k >> ]
TrainingCoordinates == [ k \in 1..MaxPoints |-> << "embedding", k >> ]

\* line 858 as a basic slice: a view that shares the rows of arr
FancyIndex_View(arr, idx) ==
    [ rows |-> [ i \in DOMAIN idx |-> arr[idx[i]] ], shares |-> TRUE ]

\* line 858: data[idx, :] with an integer array idx is a copy of the rows
FancyIndex(arr, idx) ==
    [ rows |-> [ i \in DOMAIN idx |-> arr[idx[i]] ], shares |-> FALSE ]

\* lines 860-865: currentData[currentData == 0] = 1e-12, wavelets only
ReplaceZeros(rows, wd) ==
    IF wd THEN [ i \in DOMAIN rows |-> [ rows[i] EXCEPT !.zeros = FALSE ] ]
    ELSE rows

\* line 965: data_sum > 4e2
IsValid(s) == s > ActivityThreshold

\* line 971: data / np.sum(data, 1)[:, None]: every row is divided by its sum
NormalizeRows(rows) ==
    [ k \in 1..Len(rows) |-> [ rows[k] EXCEPT !.sum = rows[k].sum \div rows[k].sum ] ]

\* line 843: np.ceil(N / batchSize)
Batches(N, bs) == (N + bs - 1) \div bs

\* lines 856-857 without the offset j * batchSize
BatchIdx_NoOffset(j, bs, N) ==
    [ i \in 1..Min(bs, N - j * bs) |-> i ]

\* lines 856-857: idx of batch j, as the positions (from 1) it covers
BatchIdx(j, bs, N) ==
    [ i \in 1..Min(bs, N - j * bs) |-> j * bs + i ]

\* lines 869 and 877: the row of D2 computed from one query row, by
\* findListKLDivergences or by cdist; it depends on the row and so on its sum
DistanceRow(r, wd) == << IF wd THEN "KL" ELSE "sqeuclidean", r.row, r.sum >>

\* TDistProjs on the row q of D2, for the costs cc and the hull test pin of
\* its two optimized candidates; candidate m ends fmin with warnflag m + 1
TaskResult(q, cc, pin) ==
    ResultTuple([ m \in CandidateIdx |-> << "guess", q[2], m >> ],
                [ m \in CandidateIdx |-> << "opt", q[2], m >> ],
                cc,
                [ m \in CandidateIdx |-> m + 1 ],
                SelectCandidate(cc, pin))

\* what the result queue carries for a task that raised: no tuple
RaisedResult ==
    [ current_guesses |-> ZeroRow, current |-> ZeroRow, tCosts |-> 0,
      current_poly |-> FALSE, current_meanMax |-> 0, exitFlags |-> 0,
      raised |-> TRUE ]

Range(f) == { f[x] : x \in DOMAIN f }

AllFinished(ts) == \A i \in DOMAIN ts : ts[i] = "finished"

\* line 886 with the tasks' exceptions swallowed
StarmapFailed_Swallowed(queue) == FALSE

\* line 886: starmap re-raises a task's exception once the tasks are done
StarmapFailed(queue) == \E m \in Range(queue) : ~m.ok

\* line 1003: the same for the pool of the UMAP branch
PoolFailed(queue) == \E m \in Range(queue) : ~m.ok

\* starmap's list, in completion order
Outs_ByCompletion(queue, n) == [ i \in 1..n |-> queue[i].res ]

\* starmap's list: entry i is the result of task i
Outs(queue, n) ==
    [ i \in 1..n |-> (CHOOSE m \in Range(queue) : m.i = i).res ]

\* lines 903-908: arr[idx] = values
StoreAt(arr, idx, values) ==
    [ p \in 1..Len(arr) |->
        IF \E i \in DOMAIN idx : idx[i] = p
        THEN values[CHOOSE i \in DOMAIN idx : idx[i] = p]
        ELSE arr[p] ]

\* line 916 left out
OverwriteOutOfHull_Skipped(zv, zg, hull) == zv

\* line 916: zValues[~inConvHull, :] = zGuesses[~inConvHull, :]
OverwriteOutOfHull(zv, zg, hull) ==
    [ p \in 1..Len(zv) |-> IF ~hull[p] THEN zg[p] ELSE zv[p] ]

\* line 1000: np.array_split(valid_data, n): the first Len % n chunks hold
\* one row more than the others
ChunkStart(len, n, i) == (i - 1) * (len \div n) + Min(i - 1, len % n)

ArraySplit(rows, n) ==
    [ i \in 1..n |->
        SubSeq(rows, ChunkStart(Len(rows), n, i) + 1,
                     ChunkStart(Len(rows), n, i + 1)) ]

\* line 1009: np.concatenate
RECURSIVE Concatenate(_)
Concatenate(ss) == IF ss = << >> THEN << >> ELSE Head(ss) \o Concatenate(Tail(ss))

\* lines 1021-1024: a NaN array with the valid rows overwritten in order
CountTrue(mask, k) == Cardinality({ i \in 1..k : mask[i] })

ScatterValid(mask, values) ==
    [ k \in 1..Len(mask) |-> IF mask[k] THEN values[CountTrue(mask, k)] ELSE NaN ]

Methods == { "TSNE", "UMAP", "PCA" }

paramVars == << method, waveletDecomp, batchSize, numProcessors >>
filterVars == << data, data_sum, idx_valid, valid_data >>
batchVars == << batchJ, currentData, D2, dispatchCount >>
poolVars == << taskState, outqueue >>
fminArrays == << zValues_fmin, zGuesses, zCosts, inConvHull, meanMax, exitFlags >>
resultVars == << zValues_temp, outputStatistics_temp, outputStatistics, zValues,
                 returnedE >>

InitEmbed ==
    /\ pcE = "start"
    /\ method \in Methods
    /\ waveletDecomp \in BOOLEAN
    /\ batchSize \in 1..MaxBatch
    /\ numProcessors \in 1..MaxProcs
    /\ data \in { RowsFrom(sums) : sums \in SeqsOf(RowSums, 1, MaxQuery) }
    /\ data_sum = << >>
    /\ idx_valid = << >>
    /\ valid_data = << >>
    /\ batchJ = 0
    /\ currentData = << >>
    /\ D2 = << >>
    /\ valid_data_chunks = << >>
    /\ taskState = << >>
    /\ outqueue = << >>
    /\ dispatchCount = << >>
    /\ computed = [ k \in 1..Len(data) |-> Absent ]
    /\ failedAt = Absent
    /\ zValues_fmin = << >>
    /\ zGuesses = << >>
    /\ zCosts = << >>
    /\ inConvHull = << >>
    /\ meanMax = << >>
    /\ exitFlags = << >>
    /\ zValues_temp = Absent
    /\ outputStatistics_temp = Absent
    /\ outputStatistics = Absent
    /\ zValues = Absent
    /\ returnedE = Absent
    /\ errE = NoValue
    /\ IdleSampler
    /\ IdleSelector
    /\ IdleSigma
    /\ IdleRecord
    /\ IdleTemplates
    /\ IdleWrapper
    /\ IdleDraw
    /\ trainingData = TrainingFeatures
    /\ trainingEmbedding = TrainingCoordinates

\* lines 962-971: the activity filter, then the normalisation of data.
\* valid_data is taken from data before line 971 rebinds the name.
FilterAndNormalize ==
    /\ pcE = "start"
    /\ data_sum' = [ k \in 1..Len(data) |-> data[k].sum ]
    /\ idx_valid' = [ k \in 1..Len(data) |-> IsValid(data_sum'[k]) ]
    /\ valid_data' = SelectRows(data, idx_valid')
    /\ data' = NormalizeRows(data)
    /\ pcE' = "filtered"
    /\ UNCHANGED << paramVars, batchVars, valid_data_chunks, poolVars,
                    computed, failedAt, fminArrays, resultVars, errE >>
    /\ UNCHANGED << samplerVars, selectorVars, sigmaVars, recordVars,
                    templateVars, trainingVars, wrapperVars, drawVars >>

\* lines 975-985 and 832-851: the call with valid_data, and the arrays
EnterFmin ==
    /\ pcE = "filtered"
    /\ method = "TSNE"
    /\ LET N == Len(valid_data)
       IN  /\ zValues_fmin' = [ p \in 1..N |-> ZeroRow ]
           /\ zGuesses' = [ p \in 1..N |-> ZeroRow ]
           /\ zCosts' = [ p \in 1..N |-> 0 ]
           /\ inConvHull' = [ p \in 1..N |-> FALSE ]
           /\ meanMax' = [ p \in 1..N |-> 0 ]
           /\ exitFlags' = [ p \in 1..N |-> 0 ]
           /\ dispatchCount' = [ p \in 1..N |-> 0 ]
    /\ batchJ' = 0
    /\ pcE' = "batch"
    /\ UNCHANGED << paramVars, filterVars, currentData, D2, valid_data_chunks,
                    poolVars, computed, failedAt, resultVars, errE >>
    /\ UNCHANGED << samplerVars, selectorVars, sigmaVars, recordVars,
                    templateVars, trainingVars, wrapperVars, drawVars >>

\* lines 854-901: the rows of batch j (a copy; on wavelets its zero entries
\* are replaced), their distance rows, and one task per row handed to the
\* pool
BatchStart ==
    /\ pcE = "batch"
    /\ batchJ < Batches(Len(valid_data), batchSize)
    /\ LET idx == BatchIdx(batchJ, batchSize, Len(valid_data))
           taken == FancyIndex(valid_data, idx)
       IN  /\ currentData' = ReplaceZeros(taken.rows, waveletDecomp)
           /\ valid_data' = IF taken.shares
                            THEN StoreAt(valid_data, idx, currentData')
                            ELSE valid_data
           /\ D2' = [ i \in DOMAIN idx |->
                       DistanceRow(currentData'[i], waveletDecomp) ]
           /\ taskState' = [ i \in DOMAIN idx |-> "pending" ]
           /\ dispatchCount' =
                 [ p \in DOMAIN dispatchCount |->
                     IF \E i \in DOMAIN idx : idx[i] = p
                     THEN dispatchCount[p] + 1 ELSE dispatchCount[p] ]
    /\ outqueue' = << >>
    /\ pcE' = "pool"
    /\ UNCHANGED << paramVars, data, data_sum, idx_valid, batchJ,
                    valid_data_chunks, computed, failedAt, fminArrays,
                    resultVars, errE >>
    /\ UNCHANGED << samplerVars, selectorVars, sigmaVars, recordVars,
                    templateVars, trainingVars, wrapperVars, drawVars >>

\* a free worker of the pool takes a task
TaskStart(i) ==
    /\ pcE \in { "pool", "umap_pool" }
    /\ taskState[i] = "pending"
    /\ Cardinality({ t \in DOMAIN taskState : taskState[t] = "running" })
          < numProcessors
    /\ taskState' = [ taskState EXCEPT ![i] = "running" ]
    /\ UNCHANGED << pcE, paramVars, filterVars, batchVars, valid_data_chunks,
                    outqueue, computed, failedAt, fminArrays, resultVars, errE >>
    /\ UNCHANGED << samplerVars, selectorVars, sigmaVars, recordVars,
                    templateVars, trainingVars, wrapperVars, drawVars >>

\* lines 748-829 in a worker: TDistProjs on D2[i] returns its tuple or raises
TaskFinish(i) ==
    /\ pcE = "pool"
    /\ taskState[i] = "running"
    /\ taskState' = [ taskState EXCEPT ![i] = "finished" ]
    /\ \/ \E low \in CandidateIdx, pin \in [ CandidateIdx -> BOOLEAN ] :
            LET cc == [ m \in CandidateIdx |-> IF m = low THEN 1 ELSE 2 ]
                res == TaskResult(D2[i], cc, pin)
            IN  /\ outqueue' = Append(outqueue, [ i |-> i, ok |-> TRUE, res |-> res ])
                /\ computed' = [ computed EXCEPT ![currentData[i].row] = Some(res) ]
                /\ UNCHANGED failedAt
       \/ /\ outqueue' = Append(outqueue, [ i |-> i, ok |-> FALSE, res |-> RaisedResult ])
          /\ failedAt' = IF failedAt = Absent
                         THEN Some([ batch |-> batchJ, task |-> i ])
                         ELSE failedAt
          /\ UNCHANGED computed
    /\ UNCHANGED << pcE, paramVars, filterVars, batchVars, valid_data_chunks,
                    fminArrays, resultVars, errE >>
    /\ UNCHANGED << samplerVars, selectorVars, sigmaVars, recordVars,
                    templateVars, trainingVars, wrapperVars, drawVars >>

\* lines 886-914: starmap returns outs, the six arrays take the batch
StarmapReturn ==
    /\ pcE = "pool"
    /\ AllFinished(taskState)
    /\ ~StarmapFailed(outqueue)
    /\ LET idx == BatchIdx(batchJ, batchSize, Len(valid_data))
           outs == Outs(outqueue, Len(taskState))
           col(name) == [ i \in DOMAIN outs |-> outs[i][name] ]
       IN  /\ zGuesses' = StoreAt(zGuesses, idx, col("current_guesses"))
           /\ zValues_fmin' = StoreAt(zValues_fmin, idx, col("current"))
           /\ zCosts' = StoreAt(zCosts, idx, col("tCosts"))
           /\ inConvHull' = StoreAt(inConvHull, idx, col("current_poly"))
           /\ meanMax' = StoreAt(meanMax, idx, col("current_meanMax"))
           /\ exitFlags' = StoreAt(exitFlags, idx, col("exitFlags"))
    /\ batchJ' = batchJ + 1
    /\ pcE' = "batch"
    /\ UNCHANGED << paramVars, filterVars, currentData, D2, dispatchCount,
                    valid_data_chunks, poolVars, computed, failedAt,
                    resultVars, errE >>
    /\ UNCHANGED << samplerVars, selectorVars, sigmaVars, recordVars,
                    templateVars, trainingVars, wrapperVars, drawVars >>

\* line 886: starmap raises a task's exception; nothing catches it. Whether
\* the pool waits for the other tasks of the batch first depends on the
\* Python version, so the raise may come as soon as one task has failed.
StarmapRaise ==
    /\ pcE = "pool"
    /\ StarmapFailed(outqueue)
    /\ pcE' = "error"
    /\ errE' = "PoolTaskFailure"
    /\ UNCHANGED << paramVars, filterVars, batchVars, valid_data_chunks,
                    poolVars, computed, failedAt, fminArrays, resultVars >>
    /\ UNCHANGED << samplerVars, selectorVars, sigmaVars, recordVars,
                    templateVars, trainingVars, wrapperVars, drawVars >>

\* lines 916-918 and 976-994: the out-of-hull overwrite, the return, and
\* the statistics stored under the name outputStatistics_temp
FminReturn ==
    /\ pcE = "batch"
    /\ batchJ = Batches(Len(valid_data), batchSize)
    /\ zValues_fmin' = OverwriteOutOfHull(zValues_fmin, zGuesses, inConvHull)
    /\ zValues_temp' = Some(zValues_fmin')
    /\ outputStatistics_temp' =
          Some([ zCosts |-> zCosts, f |-> "f", numModes |-> "pcaModes",
                 zGuesses |-> zGuesses, inConvHull |-> inConvHull,
                 meanMax |-> meanMax, exitFlags |-> exitFlags ])
    /\ pcE' = "embedded"
    /\ UNCHANGED << paramVars, filterVars, batchVars, valid_data_chunks,
                    poolVars, computed, failedAt, zGuesses, zCosts, inConvHull,
                    meanMax, exitFlags, outputStatistics, zValues, returnedE,
                    errE >>
    /\ UNCHANGED << samplerVars, selectorVars, sigmaVars, recordVars,
                    templateVars, trainingVars, wrapperVars, drawVars >>

\* lines 995-1005: the chunks of valid_data, one task per chunk
UmapSubmit ==
    /\ pcE = "filtered"
    /\ method = "UMAP"
    /\ valid_data_chunks' = ArraySplit(valid_data, numProcessors)
    /\ taskState' = [ i \in 1..numProcessors |-> "pending" ]
    /\ outqueue' = << >>
    /\ pcE' = "umap_pool"
    /\ UNCHANGED << paramVars, filterVars, batchVars, computed, failedAt,
                    fminArrays, resultVars, errE >>
    /\ UNCHANGED << samplerVars, selectorVars, sigmaVars, recordVars,
                    templateVars, trainingVars, wrapperVars, drawVars >>

\* lines 1032-1042 in a worker: umap_transform on one chunk
UmapTaskFinish(i) ==
    /\ pcE = "umap_pool"
    /\ taskState[i] = "running"
    /\ taskState' = [ taskState EXCEPT ![i] = "finished" ]
    /\ \/ LET chunk == valid_data_chunks[i]
              res == [ k \in 1..Len(chunk) |-> << "umap", chunk[k].row, 0 >> ]
          IN  /\ outqueue' = Append(outqueue, [ i |-> i, ok |-> TRUE, res |-> res ])
              /\ computed' = [ r \in DOMAIN computed |->
                                 IF \E k \in 1..Len(chunk) : chunk[k].row = r
                                 THEN Some(<< "umap", r, 0 >>) ELSE computed[r] ]
              /\ UNCHANGED failedAt
       \/ /\ outqueue' = Append(outqueue, [ i |-> i, ok |-> FALSE, res |-> RaisedResult ])
          /\ failedAt' = IF failedAt = Absent
                         THEN Some([ batch |-> 0, task |-> i ])
                         ELSE failedAt
          /\ UNCHANGED computed
    /\ UNCHANGED << pcE, paramVars, filterVars, batchVars, valid_data_chunks,
                    fminArrays, resultVars, errE >>
    /\ UNCHANGED << samplerVars, selectorVars, sigmaVars, recordVars,
                    templateVars, trainingVars, wrapperVars, drawVars >>

\* lines 1003-1016: the chunks' results concatenated, outputStatistics bound
UmapReturn ==
    /\ pcE = "umap_pool"
    /\ AllFinished(taskState)
    /\ ~PoolFailed(outqueue)
    /\ zValues_temp' = Some(Concatenate(Outs(outqueue, Len(taskState))))
    /\ outputStatistics' = Some([ training_mean |-> "trainparams0",
                                  training_scale |-> "trainparams1" ])
    /\ pcE' = "embedded"
    /\ UNCHANGED << paramVars, filterVars, batchVars, valid_data_chunks,
                    poolVars, computed, failedAt, fminArrays,
                    outputStatistics_temp, zValues, returnedE, errE >>
    /\ UNCHANGED << samplerVars, selectorVars, sigmaVars, recordVars,
                    templateVars, trainingVars, wrapperVars, drawVars >>

\* line 1003: starmap raises a task's exception
UmapRaise ==
    /\ pcE = "umap_pool"
    /\ PoolFailed(outqueue)
    /\ pcE' = "error"
    /\ errE' = "PoolTaskFailure"
    /\ UNCHANGED << paramVars, filterVars, batchVars, valid_data_chunks,
                    poolVars, computed, failedAt, fminArrays, resultVars >>
    /\ UNCHANGED << samplerVars, selectorVars, sigmaVars, recordVars,
                    templateVars, trainingVars, wrapperVars, drawVars >>

\* lines 1017-1018
UnsupportedMethod ==
    /\ pcE = "filtered"
    /\ method \notin { "TSNE", "UMAP" }
    /\ pcE' = "error"
    /\ errE' = "ValueError"
    /\ UNCHANGED << paramVars, filterVars, batchVars, valid_data_chunks,
                    poolVars, computed, failedAt, fminArrays, resultVars >>
    /\ UNCHANGED << samplerVars, selectorVars, sigmaVars, recordVars,
                    templateVars, trainingVars, wrapperVars, drawVars >>

\* lines 1021-1029: the NaN array takes the embedded rows; the return reads
\* the name outputStatistics, which only the UMAP branch binds
AssembleAndReturn ==
    /\ pcE = "embedded"
    /\ zValues' = Some(ScatterValid(idx_valid, zValues_temp[1]))
    /\ IF outputStatistics = Absent
       THEN /\ pcE' = "error"
            /\ errE' = "NameError"
            /\ UNCHANGED returnedE
       ELSE /\ pcE' = "returned"
            /\ returnedE' = Some(<< zValues'[1], outputStatistics[1] >>)
            /\ UNCHANGED errE
    /\ UNCHANGED << paramVars, filterVars, batchVars, valid_data_chunks,
                    poolVars, computed, failedAt, fminArrays, zValues_temp,
                    outputStatistics_temp, outputStatistics >>
    /\ UNCHANGED << samplerVars, selectorVars, sigmaVars, recordVars,
                    templateVars, trainingVars, wrapperVars, drawVars >>

NextEmbed ==
    \/ FilterAndNormalize
    \/ EnterFmin
    \/ BatchStart
    \/ \E i \in DOMAIN taskState : TaskStart(i)
    \/ \E i \in DOMAIN taskState : TaskFinish(i)
    \/ StarmapReturn
    \/ StarmapRaise
    \/ FminReturn
    \/ UmapSubmit
    \/ \E i \in DOMAIN taskState : UmapTaskFinish(i)
    \/ UmapReturn
    \/ UmapRaise
    \/ UnsupportedMethod
    \/ AssembleAndReturn

SpecEmbed == InitEmbed /\ [][NextEmbed]_vars

----------------------------------------------------------------------------
(* Properties of the batch embedding coordinator *)

\* positions whose batch has been stored
Stored(p) == p <= batchJ * batchSize

\* C4: on return from findTDistributedProjections_fmin a row flagged
\* out-of-hull holds its selected initial guess as final position, a row
\* flagged in-hull the optimized position of its selected candidate.
C4_OutOfHullHoldsGuess ==
    (method = "TSNE" /\ zValues_temp # Absent) =>
        \A p \in 1..Len(valid_data) :
            LET row == valid_data[p].row
            IN  /\ zGuesses[p] = << "guess", row, meanMax[p] >>
                /\ IF inConvHull[p]
                   THEN zValues_temp[1][p] = << "opt", row, meanMax[p] >>
                   ELSE zValues_temp[1][p] = zGuesses[p]

C4_Witness ==
    /\ method = "TSNE"
    /\ zValues_temp # Absent
    /\ \E p, r \in 1..Len(valid_data) : ~inConvHull[p] /\ inConvHull[r]

\* C6: whatever the order in which the tasks of a batch start and finish,
\* the six values stored at a position are those of the task computed from
\* the query row at that position, and every position gets one result.
C6_ResultsKeyedByIndex ==
    /\ (method = "TSNE" /\ pcE \in { "batch", "pool" }) =>
          \A p \in 1..Len(valid_data) :
              Stored(p) =>
                 /\ computed[valid_data[p].row] # Absent
                 /\ LET r == computed[valid_data[p].row][1]
                    IN  /\ zValues_fmin[p] = r.current
                        /\ zGuesses[p] = r.current_guesses
                        /\ zCosts[p] = r.tCosts
                        /\ inConvHull[p] = r.current_poly
                        /\ meanMax[p] = r.current_meanMax
                        /\ exitFlags[p] = r.exitFlags
    /\ (method = "TSNE" /\ zValues_temp # Absent) =>
          \A p \in 1..Len(valid_data) :
              /\ dispatchCount[p] = 1
              /\ computed[valid_data[p].row] # Absent
              /\ LET r == computed[valid_data[p].row][1]
                 IN  /\ zValues_temp[1][p] =
                           IF r.current_poly THEN r.current ELSE r.current_guesses
                     /\ zGuesses[p] = r.current_guesses
                     /\ zCosts[p] = r.tCosts
                     /\ inConvHull[p] = r.current_poly
                     /\ meanMax[p] = r.current_meanMax
                     /\ exitFlags[p] = r.exitFlags

\* two tasks of one batch finished in the reverse of their order, and the
\* run went on to return
C6_Witness ==
    /\ method = "TSNE"
    /\ zValues_temp # Absent
    /\ Len(outqueue) > 1
    /\ outqueue[1].i > outqueue[2].i

\* C7: once a task of a batch has failed and starmap has ended, the run is
\* over with that error: nothing of the failing batch or of a later one is
\* in the arrays, no later batch was started, no task was submitted twice,
\* and no coordinate array exists.
C7_FailFast ==
    /\ method = "TSNE" =>
          \A p \in DOMAIN dispatchCount : dispatchCount[p] <= 1
    /\ (method = "TSNE" /\ failedAt # Absent /\ pcE # "pool") =>
          /\ pcE = "error"
          /\ errE = "PoolTaskFailure"
          /\ batchJ = failedAt[1].batch
          /\ zValues_temp = Absent
          /\ zValues = Absent
          /\ returnedE = Absent
          /\ \A p \in 1..Len(valid_data) :
                /\ p > batchJ * batchSize =>
                      /\ zValues_fmin[p] = ZeroRow
                      /\ zGuesses[p] = ZeroRow
                      /\ zCosts[p] = 0
                      /\ inConvHull[p] = FALSE
                      /\ meanMax[p] = 0
                      /\ exitFlags[p] = 0
                /\ p > (batchJ + 1) * batchSize => dispatchCount[p] = 0

\* a task failed while another task of its batch succeeded, and a later
\* batch was still to come
C7_Witness ==
    /\ method = "TSNE"
    /\ pcE = "error"
    /\ errE = "PoolTaskFailure"
    /\ \E m \in Range(outqueue) : m.ok
    /\ \E p \in 1..Len(valid_data) : dispatchCount[p] = 0

\* C5: in the returned array a row whose sum is below the threshold was
\* never handed to the embedding engine and is NaN; a row at or above the
\* threshold was handed to it and holds the coordinate computed for it.
C5_ThresholdFilter ==
    pcE = "returned" =>
        \A k \in 1..Len(data) :
            LET dispatched == \E p \in 1..Len(valid_data) : valid_data[p].row = k
            IN  /\ data_sum[k] < ActivityThreshold =>
                      /\ ~dispatched
                      /\ zValues[1][k] = NaN
                /\ data_sum[k] >= ActivityThreshold =>
                      /\ dispatched
                      /\ Some(zValues[1][k]) = computed[k]

\* C8: with a supported method and no failed task, findEmbeddings ends by
\* returning (zValues, diagnostics); for TSNE the diagnostics hold the
\* costs, guesses, hull flags, candidate indices and exit flags.
C8_ReturnsPair ==
    ( /\ pcE \in { "returned", "error" }
      /\ method \in { "TSNE", "UMAP" }
      /\ failedAt = Absent )
    => /\ pcE = "returned"
       /\ returnedE # Absent
       /\ method = "TSNE" =>
             { "zCosts", "zGuesses", "inConvHull", "meanMax", "exitFlags" }
                 \subseteq DOMAIN returnedE[1][2]

\* C9: every row from which findListKLDivergences computes a divergence
\* row sums to 1.
C9_NormalizedBeforeDivergence ==
    \A i \in DOMAIN D2 : D2[i][1] = "KL" => D2[i][3] = 1

----------------------------------------------------------------------------
(* returnCorrectSigma_sparse, lines 677-723 *)

\* Floating-point values are the integers 0..MaxSigma (the representable
\* bandwidths, 0 standing for lowGuess = 1e-12) and two non-finite values.
NaNValue == -1
InfValue == -2

\* np.isfinite with the result ignored
IsFinite_Unchecked(x) == TRUE

\* line 698: np.isfinite
IsFinite(x) == x \notin { NaNValue, InfValue }

\* lines 681, 709: 0.5 * (highGuess + lowGuess), rounded to the nearest
\* representable value, ties to even
Mid(h, l) ==
    IF NaNValue \in { h, l } THEN NaNValue
    ELSE IF InfValue \in { h, l } THEN InfValue
    ELSE RoundHalfEven(h + l, 2)

\* lines 686-690, 711-716: the values 2**H can take for the bandwidth s.
\* For a finite s it is given by the distances (curve); for an infinite s
\* every finite distance has weight 1 and an infinite one gives nan; for a
\* nan s every weight is nan.
PerplexityAt(curve, s) ==
    IF s = NaNValue THEN { NaNValue }
    ELSE IF s = InfValue THEN { NaNValue } \cup (1..MaxNeighbors)
    ELSE { curve[s] }

\* lines 692, 718: abs(P - perplexity) < tol; false when P is nan
WithinTol(pp, target, t) ==
    /\ pp # NaNValue
    /\ pp - target < t
    /\ target - pp < t

\* line 704: P > perplexity; false when P is nan
Greater(pp, target) == pp # NaNValue /\ pp > target

\* 2**H grows with the bandwidth, from 1 up to the number of restricted
\* neighbours
PerplexityCurves ==
    { f \in [ 0..MaxSigma -> 1..MaxNeighbors ] :
        \A s \in 0..(MaxSigma - 1) : f[s] <= f[s + 1] }

InitSigma ==
    /\ pcB = "start"
    /\ ds \in { [ max |-> m ] : m \in (0..MaxSigma) \cup { InfValue, NaNValue } }
    /\ perplexityOf \in PerplexityCurves
    /\ perplexity \in 1..MaxPerplexity
    /\ tol \in 1..MaxTol
    /\ highGuess = 0
    /\ lowGuess = 0
    /\ sigma = 0
    /\ P = 0
    /\ test = FALSE
    /\ iterated = FALSE
    /\ outB = Absent
    /\ errB = NoValue
    /\ IdleSampler
    /\ IdleSelector
    /\ IdleEmbed
    /\ IdleRecord
    /\ IdleTemplates
    /\ IdleTraining
    /\ IdleWrapper
    /\ IdleDraw

\* lines 678-702: the first guess, its perplexity, and the finiteness check
SigmaStart ==
    /\ pcB = "start"
    /\ highGuess' = ds.max
    /\ lowGuess' = 0
    /\ sigma' = Mid(highGuess', lowGuess')
    /\ \E pp \in PerplexityAt(perplexityOf, sigma') :
          /\ P' = pp
          /\ test' = ~WithinTol(pp, perplexity, tol)
    /\ IF ~IsFinite(sigma')
       THEN pcB' = "raised" /\ errB' = "ValueError"
       ELSE pcB' = "loop" /\ errB' = NoValue
    /\ UNCHANGED << ds, perplexityOf, perplexity, tol, iterated, outB >>
    /\ UNCHANGED << samplerVars, selectorVars, embedVars, recordVars,
                    templateVars, trainingVars, wrapperVars, drawVars >>

\* line 703: the loop condition is true
EnterBody ==
    /\ pcB = "loop"
    /\ test
    /\ pcB' = "body"
    /\ UNCHANGED << ds, perplexityOf, perplexity, tol, highGuess, lowGuess,
                    sigma, P, test, iterated, outB, errB >>
    /\ UNCHANGED << samplerVars, selectorVars, embedVars, recordVars,
                    templateVars, trainingVars, wrapperVars, drawVars >>

\* lines 704-719: one pass through the body of the while loop
Bisect ==
    /\ pcB = "body"
    /\ highGuess' = IF Greater(P, perplexity) THEN sigma ELSE highGuess
    /\ lowGuess' = IF Greater(P, perplexity) THEN lowGuess ELSE sigma
    /\ sigma' = Mid(highGuess', lowGuess')
    /\ \E pp \in PerplexityAt(perplexityOf, sigma') :
          /\ P' = pp
          /\ test' = ~WithinTol(pp, perplexity, tol)
    /\ iterated' = TRUE
    /\ pcB' = "loop"
    /\ UNCHANGED << ds, perplexityOf, perplexity, tol, outB, errB >>
    /\ UNCHANGED << samplerVars, selectorVars, embedVars, recordVars,
                    templateVars, trainingVars, wrapperVars, drawVars >>

\* lines 703, 721-723: the loop condition is false
SigmaReturn ==
    /\ pcB = "loop"
    /\ ~test
    /\ outB' = Some([ sigma |-> sigma, P |-> P ])
    /\ pcB' = "returned"
    /\ UNCHANGED << ds, perplexityOf, perplexity, tol, highGuess, lowGuess,
                    sigma, P, test, iterated, errB >>
    /\ UNCHANGED << samplerVars, selectorVars, embedVars, recordVars,
                    templateVars, trainingVars, wrapperVars, drawVars >>

NextSigma == SigmaStart \/ EnterBody \/ Bisect \/ SigmaReturn

SpecSigma == InitSigma /\ [][NextSigma]_vars

\* The solver is sequential code: it always takes its next step.
SpecSigmaFair == SpecSigma /\ WF_vars(NextSigma)

\* C13: the solver always terminates, by returning a bandwidth whose
\* perplexity is within the tolerance or by raising an error; it never
\* loops without end, also when no bandwidth attains the target perplexity.
C13_Terminates == <>(pcB \in { "returned", "raised" })

\* C14: when the maximum of the distance vector is infinite or nan, the
\* solver raises the numeric error before any pass of the bisection loop
\* and returns nothing.
C14_NonFiniteBracketRaises ==
    ( pcB # "start" /\ ds.max \in { InfValue, NaNValue } )
    => ( /\ pcB = "raised"
         /\ errB = "ValueError"
         /\ ~iterated
         /\ outB = Absent )

\* an infinite maximum whose first perplexity happens to be within the
\* tolerance: the error is raised all the same
C14_Witness ==
    /\ pcB = "raised"
    /\ ds.max = InfValue
    /\ ~test

----------------------------------------------------------------------------
(* returnTemplates, lines 173-189 *)

\* line 177: signalData[watershedValues == i], as the row numbers kept, in
\* row order
RowsLabelled(labels, i) ==
    SelectSeq([ n \in 1..Len(labels) |-> n ], LAMBDA n : labels[n] = i)

\* lines 175-177: one template per basin 1..maxL
AllTemplates(labels, mL) == [ i \in 1..mL |-> RowsLabelled(labels, i) ]

\* line 178
Lengths(ts) == [ i \in 1..Len(ts) |-> Len(ts[i]) ]

\* line 181: np.where(lengths >= minTemplateLength)[0], 0-based indices
WhereAtLeast(ls, minLen) ==
    SelectSeq([ k \in 1..Len(ls) |-> k - 1 ], LAMBDA k : ls[k + 1] >= minLen)

\* lines 183-184 with the basin label taken as idx[i] instead of idx[i] + 1
Relabel_NoOffset(labels, kept) ==
    [ n \in 1..Len(labels) |->
        IF \E i \in 1..Len(kept) : labels[n] = kept[i]
        THEN CHOOSE i \in 1..Len(kept) : labels[n] = kept[i]
        ELSE 0 ]

\* lines 182-184: vals2 is 0 except on the points of the basin idx[i] + 1,
\* which get i + 1 (i 0-based; kept is 1-based here)
Relabel(labels, kept) ==
    [ n \in 1..Len(labels) |->
        IF \E i \in 1..Len(kept) : labels[n] = kept[i] + 1
        THEN CHOOSE i \in 1..Len(kept) : labels[n] = kept[i] + 1
        ELSE 0 ]

\* lines 186-187: boolean-mask indexing with lengths >= minTemplateLength
KeepLongEnough(arr, ls, minLen) ==
    SelectRows(arr, [ k \in 1..Len(ls) |-> ls[k] >= minLen ])

\* The watershed labels every grid cell with a basin 1..maxL, so every
\* reference point has one; a basin may hold no point.
InitTemplates ==
    /\ pcR = "start"
    /\ maxL \in 1..MaxLabels
    /\ \E N \in 1..MaxRefPoints : watershedValues \in [ 1..N -> 1..maxL ]
    /\ minTemplateLength \in 0..MaxMinLength
    /\ templates = << >>
    /\ lengths = << >>
    /\ vals2 = << >>
    /\ IdleSampler
    /\ IdleSelector
    /\ IdleEmbed
    /\ IdleSigma
    /\ IdleRecord
    /\ IdleTraining
    /\ IdleWrapper
    /\ IdleDraw

\* lines 173-189
ReturnTemplates ==
    /\ pcR = "start"
    /\ LET all == AllTemplates(watershedValues, maxL)
           ls == Lengths(all)
       IN  /\ vals2' = Relabel(watershedValues,
                               WhereAtLeast(ls, minTemplateLength))
           /\ templates' = KeepLongEnough(all, ls, minTemplateLength)
           /\ lengths' = KeepLongEnough(ls, ls, minTemplateLength)
    /\ pcR' = "returned"
    /\ UNCHANGED << watershedValues, maxL, minTemplateLength >>
    /\ UNCHANGED << samplerVars, selectorVars, embedVars, sigmaVars,
                    recordVars, trainingVars, wrapperVars, drawVars >>

NextTemplates == ReturnTemplates

SpecTemplates == InitTemplates /\ [][NextTemplates]_vars

\* C16: only templates of at least minTemplateLength rows are returned; a
\* point has label 0 exactly when its basin holds fewer than
\* minTemplateLength points, and label j exactly when it is a row of the
\* j-th returned template, whose rows are the points labelled j in order.
C16_LabelsMatchTemplates ==
    pcR = "returned" =>
        LET N == Len(watershedValues)
            basinSize(n) ==
                Cardinality({ k \in 1..N :
                                watershedValues[k] = watershedValues[n] })
        IN  /\ Len(vals2) = N
            /\ Len(lengths) = Len(templates)
            /\ \A j \in 1..Len(templates) :
                  /\ Len(templates[j]) >= minTemplateLength
                  /\ lengths[j] = Len(templates[j])
                  /\ templates[j] = RowsLabelled(vals2, j)
            /\ \A n \in 1..N :
                  /\ vals2[n] = 0 <=> basinSize(n) < minTemplateLength
                  /\ vals2[n] \in 0..Len(templates)
                  /\ \A j \in 1..Len(templates) :
                        vals2[n] = j <=>
                            \E r \in 1..Len(templates[j]) :
                                templates[j][r] = n

\* a basin dropped for being too short, and a retained basin whose new
\* label differs from its watershed label
C16_Witness ==
    /\ pcR = "returned"
    /\ \E n \in 1..Len(vals2) : vals2[n] = 0
    /\ \E n \in 1..Len(vals2) :
          vals2[n] # 0 /\ vals2[n] # watershedValues[n]

\* C18: the batches are processed one after another: while batch j is at
\* the pool or about to start, every earlier batch has been dispatched once
\* and stored, no row of a later batch has been dispatched or stored, and
\* D2 holds divergence rows of no later batch; the batches cut the query
\* positions into consecutive ranges of at most batchSize rows, each
\* position in exactly one batch.
C18_BatchesSequential ==
    LET N == Len(valid_data)
        idxOf(j) == BatchIdx(j, batchSize, N)
        current == IF pcE = "pool" THEN batchJ + 1 ELSE batchJ
    IN  /\ pcE \in { "batch", "pool" } =>
              /\ \A p \in 1..N :
                    /\ p <= batchJ * batchSize =>
                          dispatchCount[p] = 1 /\ zGuesses[p] # ZeroRow
                    /\ p > batchJ * batchSize => zGuesses[p] = ZeroRow
                    /\ p > current * batchSize => dispatchCount[p] = 0
              /\ \A i \in DOMAIN D2 :
                    \E p \in 1..N :
                        /\ valid_data[p].row = D2[i][2]
                        /\ p <= current * batchSize
              /\ pcE = "pool" =>
                    /\ DOMAIN D2 = DOMAIN idxOf(batchJ)
                    /\ \A i \in DOMAIN D2 :
                          D2[i][2] = valid_data[idxOf(batchJ)[i]].row
        /\ pcE = "batch" =>
              /\ \A p \in 1..N :
                    Cardinality({ j \in 0..(Batches(N, batchSize) - 1) :
                                    \E i \in DOMAIN idxOf(j) : idxOf(j)[i] = p })
                        = 1
              /\ \A j \in 0..(Batches(N, batchSize) - 1) :
                    /\ Len(idxOf(j)) \in 1..batchSize
                    /\ idxOf(j)[1] = j * batchSize + 1
                    /\ \A i \in 1..(Len(idxOf(j)) - 1) :
                          idxOf(j)[i + 1] = idxOf(j)[i] + 1

\* the second batch, shorter than the first, is at the pool and one of its
\* tasks has finished
C18_Witness ==
    /\ pcE = "pool"
    /\ batchJ = 1
    /\ Len(valid_data) % batchSize # 0
    /\ outqueue # << >>

\* C17: no step of the embedding changes the training set or the caller's
\* query matrix: the training features and the training embedding are as
\* they were handed in, and every row of the query matrix still has the
\* entries (zero entries included) it had when it was handed in, also after
\* the zero entries of a batch were replaced.
C17_InputsUnchanged ==
    pcE \notin { "idle", "start" } =>
        /\ trainingData = TrainingFeatures
        /\ trainingEmbedding = TrainingCoordinates
        /\ valid_data = SelectRows(RowsFrom(data_sum), idx_valid)

\* the zero entries of the rows of the last batch were replaced, and the
\* projection has returned
C17_Witness ==
    /\ pcE = "embedded"
    /\ waveletDecomp
    /\ zValues_temp # Absent
    /\ \E p \in 1..Len(valid_data) :
          /\ valid_data[p].zeros
          /\ \E i \in DOMAIN currentData :
                /\ currentData[i].row = valid_data[p].row
                /\ ~currentData[i].zeros

----------------------------------------------------------------------------
(* subsampled_tsne_from_projections, lines 582-671 *)

\* the values of parameters.tSNE_method (the method option of the t-SNE fit)
TSNEMethods == { "barnes_hut", "exact" }

\* what runEmbeddingSubSampling raises (lines 534, 541), what the file
\* operations of lines 616-646 and 664-671 raise, what a fit raises
SubsamplingErrors == { "ValueError", "ZeroDivisionError" }
FileErrors == { "OSError" }
FitErrors == { "ValueError" }

InitWrapper ==
    /\ pcW = "start"
    /\ \E m \in Methods, wd \in BOOLEAN, tm \in TSNEMethods, ro \in { 5, 50 } :
          /\ parameters = [ method |-> m, waveletDecomp |-> wd,
                            tSNE_method |-> tm, tsne_readout |-> ro ]
          /\ tSNE_method_entry = tm
    /\ tSNE_method_old = Absent
    /\ trainingFileExists \in BOOLEAN
    /\ fitMethod = Absent
    /\ errW = NoValue
    /\ IdleSampler
    /\ IdleSelector
    /\ IdleEmbed
    /\ IdleSigma
    /\ IdleRecord
    /\ IdleTemplates
    /\ IdleTraining
    /\ IdleDraw

\* an exception err leaves the wrapper: the function has no handler and
\* no finally clause, so parameters stays as it is
Raise(err) ==
    /\ pcW' = "raised"
    /\ errW' = err
    /\ UNCHANGED parameters

\* lines 586-609: the directories, and the override of tSNE_method
Configure ==
    /\ pcW = "start"
    /\ \/ /\ parameters.method = "TSNE"
          /\ tSNE_method_old' = Some(parameters.tSNE_method)
          /\ parameters' =
                [ parameters EXCEPT
                    !.tsne_readout = 50,
                    !.tSNE_method = IF parameters.tSNE_method # "barnes_hut"
                                    THEN "barnes_hut"
                                    ELSE parameters.tSNE_method ]
          /\ pcW' = "training"
          /\ UNCHANGED errW
       \/ /\ parameters.method = "UMAP"
          /\ parameters.waveletDecomp
          /\ pcW' = "training"
          /\ UNCHANGED << parameters, tSNE_method_old, errW >>
       \/ /\ \/ parameters.method = "UMAP" /\ ~parameters.waveletDecomp
             \/ parameters.method \notin { "TSNE", "UMAP" }
          /\ Raise("ValueError")
          /\ UNCHANGED tSNE_method_old
    /\ UNCHANGED << tSNE_method_entry, trainingFileExists, fitMethod >>
    /\ UNCHANGED << samplerVars, selectorVars, embedVars, sigmaVars,
                    recordVars, templateVars, trainingVars, drawVars >>

\* lines 612-615: no training set on disk: runEmbeddingSubSampling returns
\* one or raises
Subsample ==
    /\ pcW = "training"
    /\ ~trainingFileExists
    /\ \/ pcW' = "store" /\ UNCHANGED << parameters, errW >>
       \/ \E err \in SubsamplingErrors : Raise(err)
    /\ UNCHANGED << tSNE_method_entry, tSNE_method_old, trainingFileExists,
                    fitMethod >>
    /\ UNCHANGED << samplerVars, selectorVars, embedVars, sigmaVars,
                    recordVars, templateVars, trainingVars, drawVars >>

\* lines 616-640: the directory is made and the two files are written
StoreTrainingSet ==
    /\ pcW = "store"
    /\ \/ /\ pcW' = "fit"
          /\ trainingFileExists' = TRUE
          /\ UNCHANGED << parameters, errW >>
       \/ /\ \E err \in FileErrors : Raise(err)
          /\ UNCHANGED trainingFileExists
    /\ UNCHANGED << tSNE_method_entry, tSNE_method_old, fitMethod >>
    /\ UNCHANGED << samplerVars, selectorVars, embedVars, sigmaVars,
                    recordVars, templateVars, trainingVars, drawVars >>

\* lines 641-646: the training set on disk is loaded
LoadTrainingSet ==
    /\ pcW = "training"
    /\ trainingFileExists
    /\ \/ pcW' = "fit" /\ UNCHANGED << parameters, errW >>
       \/ \E err \in FileErrors : Raise(err)
    /\ UNCHANGED << tSNE_method_entry, tSNE_method_old, trainingFileExists,
                    fitMethod >>
    /\ UNCHANGED << samplerVars, selectorVars, embedVars, sigmaVars,
                    recordVars, templateVars, trainingVars, drawVars >>

\* lines 649-663: tSNE_method is set back, then the training set is fitted
\* (run_tSne reads parameters.tSNE_method) and the fit returns or raises
FitTrainingSet ==
    /\ pcW = "fit"
    /\ LET restored ==
             IF parameters.method = "TSNE"
             THEN [ parameters EXCEPT
                      !.tsne_readout = 5,
                      !.tSNE_method =
                          IF tSNE_method_old[1] # "barnes_hut"
                          THEN tSNE_method_old[1]
                          ELSE parameters.tSNE_method ]
             ELSE parameters
       IN  /\ fitMethod' = IF parameters.method = "TSNE"
                           THEN Some(restored.tSNE_method)
                           ELSE Absent
           /\ \/ /\ parameters' = restored
                 /\ pcW' = "write"
                 /\ UNCHANGED errW
              \/ /\ \E err \in FitErrors : errW' = err
                 /\ pcW' = "raised"
                 /\ parameters' = restored
    /\ UNCHANGED << tSNE_method_entry, tSNE_method_old, trainingFileExists >>
    /\ UNCHANGED << samplerVars, selectorVars, embedVars, sigmaVars,
                    recordVars, templateVars, trainingVars, drawVars >>

\* lines 664-671: the embedding is written and the wrapper returns
WriteEmbedding ==
    /\ pcW = "write"
    /\ \/ pcW' = "returned" /\ UNCHANGED << parameters, errW >>
       \/ \E err \in FileErrors : Raise(err)
    /\ UNCHANGED << tSNE_method_entry, tSNE_method_old, trainingFileExists,
                    fitMethod >>
    /\ UNCHANGED << samplerVars, selectorVars, embedVars, sigmaVars,
                    recordVars, templateVars, trainingVars, drawVars >>

NextWrapper ==
    \/ Configure
    \/ Subsample
    \/ StoreTrainingSet
    \/ LoadTrainingSet
    \/ FitTrainingSet
    \/ WriteEmbedding

SpecWrapper == InitWrapper /\ [][NextWrapper]_vars

\* C20: on every way out of the wrapper, by return or by an exception
\* raised while subsampling or fitting, parameters.tSNE_method holds the
\* value it had at entry, and the final fit ran with that value.
C20_OverrideScoped ==
    pcW \in { "returned", "raised" } =>
        /\ parameters.tSNE_method = tSNE_method_entry
        /\ fitMethod # Absent => fitMethod[1] = tSNE_method_entry

----------------------------------------------------------------------------
(* findTemplatesFromData, lines 199-253, row by row: the call of           *)
(* returnTemplates, the quotas and the sampling loop.  Row n of signalData *)
(* is written n and signalAmps[n] is written n as well, so a buffer entry  *)
(* names the point it was copied from; 0 is an entry np.zeros left.        *)

\* line 243 with the draw made with repeats: any index sequence of the
\* length asked for
Permutation_WithRepeats(n, k) == [ 1..Min(k, n) -> 0..(n - 1) ]

\* line 243: np.random.permutation(n)[:k], the 0-based index sequences it
\* can give: k pairwise distinct indices (all n of them when k > n)
Permutation(n, k) ==
    { s \in [ 1..Min(k, n) -> 0..(n - 1) ] :
        \A x, y \in 1..Min(k, n) : x # y => s[x] # s[y] }

\* lines 245-248: arr[idx2] with an integer index array (0-based)
TakeRows(arr, idx) == [ k \in 1..Len(idx) |-> arr[idx[k] + 1] ]

\* lines 244 and 248: buf[lo:hi] = rows; a slice stops at the buffer's end
SliceAssign(buf, lo, hi, rows) ==
    [ r \in 1..Len(buf) |->
        IF lo < r /\ r <= hi THEN rows[r - lo] ELSE buf[r] ]

\* lines 216-217: np.zeros((numPerDataSet, .))
ZeroBuffer(T) == [ r \in 1..T |-> 0 ]

InitDraw ==
    /\ pcS = "call"
    /\ numPerDataSet \in 0..MaxTarget
    /\ templateLengths = << >>
    /\ numInGroup = << >>
    /\ selectedData = << >>
    /\ trainingSetSize = 0
    /\ training_numPoints = 0
    /\ numFiles = 0
    /\ fileIdx = 0
    /\ trainingSetData = << >>
    /\ useIdx = << >>
    /\ unionSize = 0
    /\ returnedS = Absent
    /\ errS = NoValue
    /\ pcR = "start"
    /\ maxL \in 1..MaxLabels
    /\ \E N \in 1..MaxRefPoints : watershedValues \in [ 1..N -> 1..maxL ]
    /\ minTemplateLength \in 0..MaxMinLength
    /\ templates = << >>
    /\ lengths = << >>
    /\ vals2 = << >>
    /\ loopJ = 0
    /\ cumSumGroupVals = << >>
    /\ selectedAmps = << >>
    /\ IdleSelector
    /\ IdleEmbed
    /\ IdleSigma
    /\ IdleRecord
    /\ IdleTraining
    /\ IdleWrapper

\* lines 199-201 bind the results of returnTemplates (the action
\* ReturnTemplates); lines 214-237: the buffers, the quotas, the offsets
ComputeQuotas ==
    /\ pcS = "call"
    /\ pcR = "returned"
    /\ templateLengths' = lengths
    /\ \E pick \in RebalanceChoices(
                      ProportionalQuota(lengths, numPerDataSet),
                      numPerDataSet) :
          /\ numInGroup' = FinalQuota(lengths, numPerDataSet, pick)
          /\ cumSumGroupVals' = CumSum(numInGroup')
    /\ selectedData' = ZeroBuffer(numPerDataSet)
    /\ selectedAmps' = ZeroBuffer(numPerDataSet)
    /\ loopJ' = 0
    /\ pcS' = "loop"
    /\ UNCHANGED << trainingSetSize, training_numPoints, numFiles,
                    numPerDataSet, fileIdx, trainingSetData, useIdx,
                    unionSize, returnedS, errS >>
    /\ UNCHANGED << selectorVars, embedVars, sigmaVars, recordVars,
                    templateVars, trainingVars, wrapperVars >>

\* lines 239-248: one pass of the loop over the templates
SampleBasin ==
    /\ pcS = "loop"
    /\ loopJ < Len(templates)
    /\ LET lo == cumSumGroupVals[loopJ]
           hi == cumSumGroupVals[loopJ + 1]
           amps == RowsLabelled(vals2, loopJ + 1)
       IN  IF hi > lo
           THEN \E idx2 \in Permutation(Len(templates[loopJ + 1]),
                                        numInGroup[loopJ + 1]) :
                   /\ selectedData' =
                         SliceAssign(selectedData, lo, hi,
                                     TakeRows(templates[loopJ + 1], idx2))
                   /\ selectedAmps' =
                         SliceAssign(selectedAmps, lo, hi,
                                     TakeRows(amps, idx2))
           ELSE UNCHANGED << selectedData, selectedAmps >>
    /\ loopJ' = loopJ + 1
    /\ UNCHANGED << pcS, trainingSetSize, training_numPoints, numFiles,
                    numPerDataSet, fileIdx, templateLengths, numInGroup,
                    trainingSetData, useIdx, unionSize, returnedS, errS,
                    cumSumGroupVals >>
    /\ UNCHANGED << selectorVars, embedVars, sigmaVars, recordVars,
                    templateVars, trainingVars, wrapperVars >>

\* lines 250-253
ReturnSelected ==
    /\ pcS = "loop"
    /\ loopJ = Len(templates)
    /\ pcS' = "returned"
    /\ UNCHANGED << trainingSetSize, training_numPoints, numFiles,
                    numPerDataSet, fileIdx, templateLengths, numInGroup,
                    selectedData, trainingSetData, useIdx, unionSize,
                    returnedS, errS >>
    /\ UNCHANGED << selectorVars, embedVars, sigmaVars, recordVars,
                    templateVars, trainingVars, wrapperVars, drawVars >>

NextDraw ==
    \/ ReturnTemplates
    \/ ComputeQuotas
    \/ SampleBasin
    \/ ReturnSelected

SpecDraw == InitDraw /\ [][NextDraw]_vars

\* C21: the rows sampled for basin j are pairwise distinct rows of template
\* j, as many as basin j's final quota; each is stored at the same slot as
\* the amplitude of the point it was copied from; the ranges written for
\* the basins do not overlap and lie inside the numPerDataSet-row buffer.
C21_SampledRows ==
    pcS \in { "loop", "returned" } =>
        LET N == Len(templates)
            slots(j) == (cumSumGroupVals[j - 1] + 1)..cumSumGroupVals[j]
        IN  /\ Len(selectedData) = numPerDataSet
            /\ Len(selectedAmps) = numPerDataSet
            /\ pcS = "returned" => loopJ = N
            /\ \A j \in 1..N :
                  /\ slots(j) \subseteq 1..numPerDataSet
                  /\ \A k \in 1..N : k # j => slots(j) \cap slots(k) = {}
            /\ \A j \in 1..loopJ :
                  /\ Cardinality(slots(j)) = numInGroup[j]
                  /\ Cardinality({ r \in 1..numPerDataSet :
                                     selectedData[r] \in Range(templates[j]) })
                        = numInGroup[j]
                  /\ \A r \in slots(j) :
                        /\ selectedData[r] \in Range(templates[j])
                        /\ selectedAmps[r] = selectedData[r]
                        /\ \A q \in slots(j) :
                              q # r => selectedData[q] # selectedData[r]
            /\ \A r \in 1..numPerDataSet :
                  ( \A j \in 1..loopJ : r \notin slots(j) )
                  => ( selectedData[r] = 0 /\ selectedAmps[r] = 0 )

\* two basins sampled, one of them for fewer rows than it holds, and a
\* sampled row that is not the first row of its template
C21_Witness ==
    /\ pcS = "returned"
    /\ Len(templates) >= 2
    /\ \A j \in 1..Len(templates) : numInGroup[j] >= 1
    /\ \E j \in 1..Len(templates) :
          /\ numInGroup[j] < Len(templates[j])
          /\ selectedData[cumSumGroupVals[j]] # templates[j][1]
          /\ selectedAmps[cumSumGroupVals[j]] = selectedData[cumSumGroupVals[j]]

====
